---- MODULE Spec2Model ----
(***************************************************************************)
(* A model of the mosca MQTT broker: the per-connection state machine of   *)
(* Server.prototype.serve / closeConn and the LevelUp persistence.         *)
(*                                                                         *)
(* The server state is kept in one variable per field.  A handler is an    *)
(* operator from a server state (the record Cur) to the server state after  *)
(* the handler has run, so that a handler that calls another one           *)
(* (unsubAndClose -> closeConn -> cleanup -> the will) is the composition   *)
(* of the operators; Commit writes the result back.                        *)
(***************************************************************************)
EXTENDS Integers, Sequences, FiniteSets, TLC

\* ------------------------------------------------------------- universe
\* The sockets the listener accepted (each is served once).
Conns == {"k1", "k2"}
\* The client ids a CONNECT may carry.
ClientIds == {"A", "B"}
\* client.id before any CONNECT (undefined).
NoId == "noid"
\* No session registered under an id.
NoConn == "noconn"
\* Concrete topics of PUBLISH packets and topic filters of SUBSCRIBE packets,
\* as sequences of levels.
Topics == {<<"a", "b">>, <<"c">>}
Filters == {<<"a", "+">>, <<"#">>}
\* The topic of the will a CONNECT may carry.
WillTopic == <<"c">>
\* keepalive values (seconds) a CONNECT may carry.
KeepAlives == {2}

\* ---------------------------------------------------------------- bounds
\* Time advances in steps of TickMs milliseconds.
TickMs == 1250
\* PUBLISH packets received by the broker in one behaviour.
MaxPublishes == 1
\* CONNECT packets received by the broker in one behaviour.
MaxConnects == 2
\* SUBSCRIBE / UNSUBSCRIBE packets received in one behaviour.
MaxSubscribes == 2
\* PINGREQ / PUBACK packets received in one behaviour.
MaxPings == 1
MaxPubacks == 2
\* DISCONNECT packets received on one connection.
MaxDisconnects == 1
\* Clock ticks in one behaviour.
MaxTicks == 2
\* Entries in one SUBSCRIBE packet.
MaxEntries == 2

\* ------------------------------------------------------ program constants
\* opts.baseRetryTimeout default.
BaseRetryTimeout == 1000
\* actualSend gives up when retry reaches this.
MaxRetry == 10
\* client.nextId starts at floor(65535 * random): one of
InitIds == {65534}

\* ------------------------------------------------------- pure functions
Min(a, b) == IF a < b THEN a ELSE b

RECURSIVE Pow2(_)
Pow2(n) == IF n = 0 THEN 1 ELSE 2 * Pow2(n - 1)

\* The keepalive timeout in ms.
Timeout(ka) == (ka * 1000 * 5) \div 4

\* A retransmit delay that grows by the base delay at every attempt.
RetryDelayLinear(retry) == BaseRetryTimeout * (retry + 1)

\* The delay of the retransmit timer set by attempt `retry`.
RetryDelay(retry) == BaseRetryTimeout * Pow2(retry)

\* Wildcard matching of the topic matcher: + is one level, # the rest.
RECURSIVE Matches(_, _)
Matches(f, t) ==
  IF f = <<>> THEN t = <<>>
  ELSE IF Head(f) = "#" /\ Len(f) = 1 THEN TRUE
  ELSE IF t = <<>> THEN FALSE
  ELSE (Head(f) = "+" \/ Head(f) = Head(t)) /\ Matches(Tail(f), Tail(t))

\* s.topic.replace("#", "*"): the first "#" becomes "*".
RECURSIVE ToBus(_)
ToBus(f) ==
  IF f = <<>> THEN <<>>
  ELSE IF Head(f) = "#" THEN <<"*">> \o Tail(f)
  ELSE <<Head(f)>> \o ToBus(Tail(f))

\* Wildcard matching of the bus: + is one level, * the rest.
RECURSIVE BusMatches(_, _)
BusMatches(f, t) ==
  IF f = <<>> THEN t = <<>>
  ELSE IF Head(f) = "*" /\ Len(f) = 1 THEN TRUE
  ELSE IF t = <<>> THEN FALSE
  ELSE (Head(f) = "+" \/ Head(f) = Head(t)) /\ BusMatches(Tail(f), Tail(t))

\* A set as a sequence, in some fixed order.
RECURSIVE SetToSeq(_)
SetToSeq(S) ==
  IF S = {} THEN <<>>
  ELSE LET x == CHOOSE y \in S : TRUE IN <<x>> \o SetToSeq(S \ {x})

\* ------------------------------------------------------------ the state
VARIABLES
  clients,       \* Server.clients: client id -> connection
  id,            \* client.id
  keepalive,     \* client.keepalive
  will,          \* client.will is set
  timer,         \* client.timer: [armed, left] (ms left before it fires)
  subscriptions, \* client.subscriptions: filter -> [qos, hqos] (hqos: the handler's s.qos)
  bus,           \* the handlers registered on the ascoltatore: [conn, topic, qos] -> count
  nextId,        \* client.nextId
  inflight,      \* client.inflight: messageId -> [retry, delay, armed, msg]
  closed,        \* client._closed
  onclose,       \* client._onclose is a listener of "close"
  listeners,     \* the client's listeners are in place (no removeAllListeners yet)
  streamEnded,   \* client.stream.end() was called
  stream,        \* the socket: "open", "end" (the peer's FIN was read), "closed"
  endCleanups,   \* the cleanup callbacks listening to the stream's "end", with their callback
  deferred,      \* the bus's deferred callbacks, in order
  shutdown,      \* Server.close: "no", "closing" (callbacks left), "closed"
  shutdownLeft,  \* closeConn callbacks Server.close still waits for
  uncaught,      \* an "error" was emitted on a client with no listener
  now,           \* the clock, ms
  \* what the broker emitted and wrote (history)
  connectedEv,   \* clientConnected events per connection
  disconnectedEv,\* clientDisconnected events per connection
  errorEv,       \* "error" events emitted on the client
  willPub,       \* will publishes per connection
  connacks,      \* CONNACK return codes written per connection
  sent,          \* PUBLISH transmissions: [conn, id, msg, qos, retry, delay]
  acks,          \* PUBACKs that cleared an inflight entry: [conn, id, retry]
  unknownAcks,   \* PUBACKs with no inflight entry: [conn, id]
  exhausted,     \* [conn, id]: actualSend reached retry = MaxRetry
  published,     \* published events: [conn, msg]
  pubacks,       \* PUBACKs written: [conn, mid]
  subacks,       \* SUBACKs written: [conn, granted]
  unsubacks,     \* UNSUBACKs written per connection
  pingresps,     \* PINGRESPs written per connection
  disconnects,   \* DISCONNECT packets handled per connection
  denied,        \* authorizePublish / authorizeSubscribe denials per connection
  publishes,     \* the PUBLISH packets received: [conn, msg, qos, ok, held]
  verdicts,      \* what authenticate reported for the CONNECTs of a connection, in order
  lastRecv,      \* the packet the last step handled, if any: [conn, type]
  nPublish, nConnect, nSubscribe, nPing, nPuback   \* packets received so far

curVars == <<clients, id, keepalive, will, timer, subscriptions, bus, nextId,
             inflight, closed, onclose, listeners, streamEnded, stream,
             endCleanups, deferred, shutdown, shutdownLeft, uncaught,
             connectedEv, disconnectedEv, errorEv, willPub, connacks, sent,
             acks, unknownAcks, exhausted, published, pubacks, subacks,
             unsubacks, pingresps, disconnects, denied, publishes, verdicts,
             lastRecv>>
cntVars == <<nPublish, nConnect, nSubscribe, nPing, nPuback>>
srvVars == <<curVars, now, cntVars>>



\* ------------------------------------------------- the server state record
NoSub == [on |-> FALSE, qos |-> 0, hqos |-> 0]
NoTimer == [armed |-> FALSE, left |-> 0]
Handlers == [conn : Conns, topic : Filters, qos : {0, 1}]
\* A deferred callback of the bus (one shape for every kind).
Task(kind, k) ==
  [kind |-> kind, conn |-> k, topics |-> {}, regs |-> <<>>, then |-> "none",
   cb |-> "none", suback |-> FALSE, granted |-> <<>>, qos |-> 0, msg |-> 0, mid |-> 0]

Cur ==
  [clients |-> clients, id |-> id, keepalive |-> keepalive, will |-> will,
   timer |-> timer, subscriptions |-> subscriptions, bus |-> bus,
   nextId |-> nextId, inflight |-> inflight, closed |-> closed,
   onclose |-> onclose, listeners |-> listeners, streamEnded |-> streamEnded,
   stream |-> stream, endCleanups |-> endCleanups, deferred |-> deferred,
   shutdown |-> shutdown, shutdownLeft |-> shutdownLeft, uncaught |-> uncaught,
   connectedEv |-> connectedEv, disconnectedEv |-> disconnectedEv,
   errorEv |-> errorEv, willPub |-> willPub, connacks |-> connacks,
   sent |-> sent, acks |-> acks, unknownAcks |-> unknownAcks,
   exhausted |-> exhausted, published |-> published, pubacks |-> pubacks,
   subacks |-> subacks, unsubacks |-> unsubacks, pingresps |-> pingresps,
   disconnects |-> disconnects, denied |-> denied, publishes |-> publishes,
   verdicts |-> verdicts, lastRecv |-> lastRecv]

Commit(st) ==
  /\ clients' = st.clients /\ id' = st.id /\ keepalive' = st.keepalive
  /\ will' = st.will /\ timer' = st.timer /\ subscriptions' = st.subscriptions
  /\ bus' = st.bus /\ nextId' = st.nextId /\ inflight' = st.inflight
  /\ closed' = st.closed /\ onclose' = st.onclose /\ listeners' = st.listeners
  /\ streamEnded' = st.streamEnded /\ stream' = st.stream
  /\ endCleanups' = st.endCleanups /\ deferred' = st.deferred
  /\ shutdown' = st.shutdown /\ shutdownLeft' = st.shutdownLeft
  /\ uncaught' = st.uncaught
  /\ connectedEv' = st.connectedEv /\ disconnectedEv' = st.disconnectedEv
  /\ errorEv' = st.errorEv /\ willPub' = st.willPub /\ connacks' = st.connacks
  /\ sent' = st.sent /\ acks' = st.acks /\ unknownAcks' = st.unknownAcks
  /\ exhausted' = st.exhausted /\ published' = st.published
  /\ pubacks' = st.pubacks /\ subacks' = st.subacks
  /\ unsubacks' = st.unsubacks /\ pingresps' = st.pingresps
  /\ disconnects' = st.disconnects /\ denied' = st.denied
  /\ publishes' = st.publishes /\ verdicts' = st.verdicts
  /\ lastRecv' = st.lastRecv

\* ---------------------------------------------------------------- the bus
\* ascoltatore.subscribe / unsubscribe of one handler.
BusAdd(st, h) == [st EXCEPT !.bus[h] = @ + 1]
BusRemove(st, h) == [st EXCEPT !.bus[h] = IF @ > 0 THEN @ - 1 ELSE 0]

\* The handlers a publish on `topic` reaches, each as often as it is registered.
RECURSIVE Repeat(_, _)
Repeat(x, n) == IF n = 0 THEN <<>> ELSE <<x>> \o Repeat(x, n - 1)
RECURSIVE Expand(_, _)
Expand(b, hs) ==
  IF hs = <<>> THEN <<>>
  ELSE Repeat(Head(hs), b[Head(hs)]) \o Expand(b, Tail(hs))
MatchingHandlers(st, topic) ==
  Expand(st.bus, SetToSeq({h \in Handlers :
                             st.bus[h] > 0 /\ BusMatches(ToBus(h.topic), topic)}))

\* ------------------------------------------------- serve: the inner functions
\* setUpTimer
SetUpTimer(st, k) ==
  [st EXCEPT !.timer[k] = [armed |-> TRUE, left |-> Timeout(st.keepalive[k])]]

\* client.emit("error", ...): the "error" listener ends the stream; with no
\* listener left the emit throws.
EmitError(st, k) ==
  IF st.listeners[k]
  THEN [st EXCEPT !.errorEv[k] = @ + 1, !.streamEnded[k] = TRUE]
  ELSE [st EXCEPT !.uncaught = TRUE]

\* inflight[mid] = e
PutInflight(f, mid, e) ==
  [i \in (DOMAIN f) \cup {mid} |-> IF i = mid THEN e ELSE f[i]]
\* delete inflight[mid]
DelInflight(f, mid) == [i \in (DOMAIN f) \ {mid} |-> f[i]]

\* actualSend(packet, retry)
ActualSend(st, k, pkt, retry) ==
  IF retry = MaxRetry
  THEN EmitError([st EXCEPT !.exhausted = @ \cup {[conn |-> k, id |-> pkt.id]}], k)
  ELSE LET delay == IF pkt.qos = 1 THEN RetryDelay(retry) ELSE 0
           s1 == [st EXCEPT !.sent = @ \cup {[conn |-> k, id |-> pkt.id,
                                              msg |-> pkt.msg, qos |-> pkt.qos,
                                              retry |-> retry, delay |-> delay]}]
       IN IF pkt.qos = 1
          THEN [s1 EXCEPT !.inflight[k] =
                  PutInflight(@, pkt.id, [retry |-> retry, delay |-> delay,
                                          armed |-> TRUE, msg |-> pkt.msg])]
          ELSE s1

\* forward(topic, payload, options, sub_topic, initial_qos), as the handler h
Forward(st, h, pqos, msg) ==
  LET k == h.conn
      sub == st.subscriptions[k][h.topic]
      subq == IF sub.on THEN sub.qos ELSE h.qos
      pkt == [id |-> st.nextId[k], msg |-> msg, qos |-> Min(pqos, subq)]
  IN ActualSend([st EXCEPT !.nextId[k] = @ + 1], k, pkt, 0)

\* ascoltatore.publish: every matching handler is called.
RECURSIVE Deliver(_, _, _, _)
Deliver(st, hs, pqos, msg) ==
  IF hs = <<>> THEN st
  ELSE Deliver(Forward(st, Head(hs), pqos, msg), Tail(hs), pqos, msg)
BusPublish(st, topic, pqos, msg) ==
  Deliver(st, MatchingHandlers(st, topic), pqos, msg)

\* closeConn's cleanup, with closeConn's callback cb:
\* "none", "will" (the one _onclose passes) or "shutdown" (Server.close's).
Cleanup(st, k, cb) ==
  LET s1 == [st EXCEPT !.inflight[k] = <<>>,
                       !.listeners[k] = FALSE,
                       !.disconnectedEv[k] = @ + 1]
      s2 == IF cb = "shutdown"
            THEN [s1 EXCEPT !.shutdownLeft = @ - 1,
                            !.shutdown = IF s1.shutdownLeft = 1 THEN "closed" ELSE @,
                            !.bus = IF s1.shutdownLeft = 1
                                    THEN [h \in Handlers |-> 0] ELSE @]
            ELSE s1
  IN IF cb = "will" /\ st.will[k]
     THEN BusPublish([s2 EXCEPT !.willPub[k] = @ + 1], WillTopic, 0, 0)
     ELSE s2

\* Server.prototype.closeConn(client, callback)
CloseConn(st, k, cb) ==
  LET s1 == IF st.id[k] # NoId
            THEN [st EXCEPT !.timer[k] = NoTimer, !.clients[st.id[k]] = NoConn]
            ELSE st
      s2 == [s1 EXCEPT !.onclose[k] = FALSE]
  IN IF s2.closed[k]
     THEN Cleanup(s2, k, cb)
     ELSE [s2 EXCEPT !.endCleanups[k] = Append(@, cb), !.streamEnded[k] = TRUE]

\* The subscriptions the client holds.
Held(st, k) == {f \in Filters : st.subscriptions[k][f].on}

\* unsubscribeMapTo(topic), up to the bus's deferred callback.
RECURSIVE UnsubscribeAll(_, _, _)
UnsubscribeAll(st, k, ts) ==
  IF ts = <<>> THEN st
  ELSE LET f == Head(ts)
           sub == st.subscriptions[k][f]
       IN UnsubscribeAll(IF sub.on
                         THEN BusRemove(st, [conn |-> k, topic |-> f, qos |-> sub.hqos])
                         ELSE st,
                         k, Tail(ts))

\* unsubAndClose(cb)
UnsubAndClose(st, k, cb) ==
  LET s1 == [st EXCEPT !.onclose[k] = FALSE]
      ts == Held(st, k)
  IN IF ts = {}
     THEN CloseConn(s1, k, cb)
     ELSE LET s2 == UnsubscribeAll(s1, k, SetToSeq(ts))
          IN [s2 EXCEPT !.deferred =
                Append(@, [Task("unsubscribed", k) EXCEPT
                             !.topics = ts, !.then = "close", !.cb = cb])]


\* ------------------------------------------------------ serve: the handlers
Mark(st, k, type) == [st EXCEPT !.lastRecv = [conn |-> k, type |-> type]]

\* A connect handler that places the session in the registry before it
\* authenticates.
OnConnectRegisterFirst(st, k, c, verdict, ka, w) ==
  LET s1 == [st EXCEPT !.id[k] = c, !.clients[c] = k]
  IN CASE verdict = "err" ->
            [s1 EXCEPT !.streamEnded[k] = TRUE]
       [] verdict = "deny" ->
            [s1 EXCEPT !.connacks[k] = Append(@, 5), !.streamEnded[k] = TRUE]
       [] OTHER ->
            LET s2 == [s1 EXCEPT !.keepalive[k] = ka, !.will[k] = w]
                s3 == SetUpTimer(s2, k)
            IN [s3 EXCEPT !.connacks[k] = Append(@, 0),
                          !.connectedEv[k] = @ + 1]

\* client.on("connect"); verdict is what authenticate reports.
OnConnect(st, k, c, verdict, ka, w) ==
  LET s1 == [st EXCEPT !.id[k] = c]
  IN CASE verdict = "err" ->
            [s1 EXCEPT !.streamEnded[k] = TRUE]
       [] verdict = "deny" ->
            [s1 EXCEPT !.connacks[k] = Append(@, 5), !.streamEnded[k] = TRUE]
       [] OTHER ->
            LET s2 == [s1 EXCEPT !.keepalive[k] = ka, !.will[k] = w,
                                 !.clients[c] = k]
                s3 == SetUpTimer(s2, k)
            IN [s3 EXCEPT !.connacks[k] = Append(@, 0),
                          !.connectedEv[k] = @ + 1]

\* client.on("puback")
OnPuback(st, k, mid) ==
  IF mid \in DOMAIN st.inflight[k]
  THEN [st EXCEPT !.acks = @ \cup {[conn |-> k, id |-> mid,
                                    retry |-> st.inflight[k][mid].retry]},
                  !.inflight[k] = DelInflight(@, mid)]
  ELSE [st EXCEPT !.unknownAcks = @ \cup {[conn |-> k, id |-> mid]}]

\* client.on("pingreq")
OnPingreq(st, k) ==
  [SetUpTimer(st, k) EXCEPT !.pingresps[k] = @ + 1]

\* e.qos === 2 becomes 1
Down(q) == IF q = 2 THEN 1 ELSE q

\* client.on("subscribe"): the map over packet.subscriptions
RECURSIVE UpdateQos(_, _, _)
UpdateQos(st, k, es) ==
  IF es = <<>> THEN st
  ELSE LET e == Head(es)
       IN UpdateQos(IF st.subscriptions[k][e.topic].on
                    THEN [st EXCEPT !.subscriptions[k][e.topic].qos = Down(e.qos)]
                    ELSE st,
                    k, Tail(es))
Granted(es) == [i \in DOMAIN es |-> Down(es[i].qos)]

\* The bus's callbacks of the registrations made so far, deferred together.
Flush(st, k, regs, suback, granted) ==
  IF regs = <<>> THEN st
  ELSE [st EXCEPT !.deferred =
          Append(@, [Task("subscribed", k) EXCEPT
                       !.regs = regs, !.suback = suback, !.granted = granted])]

\* client.on("subscribe"): async.parallel over the filters not yet held; e.ok
\* is what authorizeSubscribe reports.  Every task is started; the first
\* failure calls unsubAndClose.
RECURSIVE SubTasks(_, _, _, _, _, _)
SubTasks(st, k, subs, failed, pending, granted) ==
  IF subs = <<>> THEN Flush(st, k, pending, ~failed, granted)
  ELSE LET s == Head(subs)
           reg == [topic |-> s.topic, qos |-> Down(s.qos)]
       IN IF s.ok
          THEN SubTasks(BusAdd(st, [conn |-> k, topic |-> s.topic, qos |-> Down(s.qos)]),
                        k, Tail(subs), failed, Append(pending, reg), granted)
          ELSE IF failed
          THEN SubTasks([st EXCEPT !.denied[k] = @ + 1],
                        k, Tail(subs), TRUE, pending, granted)
          ELSE SubTasks(UnsubAndClose(Flush([st EXCEPT !.denied[k] = @ + 1],
                                            k, pending, FALSE, granted), k, "none"),
                        k, Tail(subs), TRUE, <<>>, granted)

NotHeld(st, k, es) ==
  SelectSeq(es, LAMBDA e : ~st.subscriptions[k][e.topic].on)

OnSubscribe(st, k, es) ==
  LET s1 == UpdateQos(st, k, es)
      subs == NotHeld(st, k, es)
  IN IF subs = <<>>
     THEN [s1 EXCEPT !.subacks[k] = Append(@, Granted(es))]
     ELSE SubTasks(s1, k, subs, FALSE, <<>>, Granted(es))

\* the bus's callback of ascoltatore.subscribe (lines 784-792) and the final
\* callback of async.parallel (795-804)
RECURSIVE SetSubscribed(_, _, _)
SetSubscribed(st, k, regs) ==
  IF regs = <<>> THEN st
  ELSE SetSubscribed([st EXCEPT !.subscriptions[k][Head(regs).topic] =
                        [on |-> TRUE, qos |-> Head(regs).qos, hqos |-> Head(regs).qos]],
                     k, Tail(regs))

\* A final callback of async.parallel that writes the SUBACK whether a task
\* failed or not.
OnSubscribedAckAll(st, t) ==
  LET s1 == SetSubscribed(st, t.conn, t.regs)
  IN [s1 EXCEPT !.subacks[t.conn] = Append(@, t.granted)]

\* the callbacks for the task t
OnSubscribed(st, t) ==
  LET s1 == SetSubscribed(st, t.conn, t.regs)
  IN IF t.suback
     THEN [s1 EXCEPT !.subacks[t.conn] = Append(@, t.granted)]
     ELSE s1

\* A publish handler that closes the connection of a refused PUBLISH without
\* unsubscribing.
OnPublishCloseOnly(st, k, topic, qos, ok, msg) ==
  IF ~ok THEN CloseConn([st EXCEPT !.denied[k] = @ + 1], k, "none")
  ELSE LET s1 == BusPublish(st, topic, qos, msg)
       IN [s1 EXCEPT !.deferred =
             Append(@, [Task("published", k) EXCEPT
                          !.qos = qos, !.msg = msg, !.mid = msg])]

\* client.on("publish"); ok is what authorizePublish reports.
OnPublish(st, k, topic, qos, ok, msg) ==
  IF ~ok THEN UnsubAndClose([st EXCEPT !.denied[k] = @ + 1], k, "none")
  ELSE LET s1 == BusPublish(st, topic, qos, msg)
       IN [s1 EXCEPT !.deferred =
             Append(@, [Task("published", k) EXCEPT
                          !.qos = qos, !.msg = msg, !.mid = msg])]

\* A callback of ascoltatore.publish that acknowledges every packet.
OnPublishedAckAll(st, t) ==
  LET s1 == [st EXCEPT !.pubacks = @ \cup {[conn |-> t.conn, mid |-> t.mid]}]
  IN [s1 EXCEPT !.published = @ \cup {[conn |-> t.conn, msg |-> t.msg]}]

\* the bus's callback of ascoltatore.publish (lines 824-834)
OnPublished(st, t) ==
  LET s1 == IF t.qos = 1
            THEN [st EXCEPT !.pubacks = @ \cup {[conn |-> t.conn, mid |-> t.mid]}]
            ELSE st
  IN [s1 EXCEPT !.published = @ \cup {[conn |-> t.conn, msg |-> t.msg]}]

\* client.on("unsubscribe")
OnUnsubscribe(st, k, ts) ==
  LET s1 == UnsubscribeAll(st, k, SetToSeq(ts))
  IN [s1 EXCEPT !.deferred =
        Append(@, [Task("unsubscribed", k) EXCEPT !.topics = ts, !.then = "unsuback"])]

\* the bus's callbacks of ascoltatore.unsubscribe (lines 675-683) and the final
\* callback of async.parallel
OnUnsubscribed(st, t) ==
  LET k == t.conn
      s1 == [st EXCEPT !.subscriptions[k] =
               [f \in Filters |-> IF f \in t.topics THEN NoSub ELSE @[f]]]
  IN IF t.then = "close"
     THEN CloseConn(s1, k, t.cb)
     ELSE [s1 EXCEPT !.unsubacks[k] = @ + 1]

\* client.on("disconnect")
OnDisconnect(st, k) ==
  UnsubAndClose([st EXCEPT !.disconnects[k] = @ + 1], k, "none")

\* the retransmit timer of inflight[mid] fires (lines 643-648)
OnRetry(st, k, mid) ==
  LET e == st.inflight[k][mid]
      s1 == [st EXCEPT !.inflight[k][mid].armed = FALSE]
  IN ActualSend(s1, k, [id |-> mid, msg |-> e.msg, qos |-> 1], e.retry + 1)

\* the keepalive timer fires (lines 619-622)
OnKeepalive(st, k) ==
  CloseConn([st EXCEPT !.timer[k].armed = FALSE], k, "none")

\* the stream emits "end": the cleanups closeConn registered run
RECURSIVE RunCleanups(_, _, _)
RunCleanups(st, k, cbs) ==
  IF cbs = <<>> THEN st
  ELSE RunCleanups(Cleanup(st, k, Head(cbs)), k, Tail(cbs))
OnStreamEnd(st, k) ==
  RunCleanups([st EXCEPT !.stream[k] = "end"], k, st.endCleanups[k])

\* the client emits "close": the listener of lines 861-864, then _onclose
OnClose(st, k) ==
  LET s0 == [st EXCEPT !.stream[k] = "closed"]
  IN IF ~st.listeners[k] THEN s0
     ELSE LET s1 == [s0 EXCEPT !.closed[k] = TRUE]
          IN IF st.onclose[k] THEN UnsubAndClose(s1, k, "will") ELSE s1

\* Server.prototype.close: closeConn(that.clients[id], cb) for every key
RECURSIVE CloseAll(_, _)
CloseAll(st, ids) ==
  IF ids = <<>> THEN st
  ELSE LET k == st.clients[Head(ids)]
       IN IF k = NoConn
          THEN [st EXCEPT !.uncaught = TRUE]
          ELSE CloseAll(CloseConn(st, k, "shutdown"), Tail(ids))
OnServerClose(st) ==
  LET ids == {c \in ClientIds : st.clients[c] # NoConn}
  IN IF ids = {}
     THEN [st EXCEPT !.shutdown = "closed", !.bus = [h \in Handlers |-> 0]]
     ELSE CloseAll([st EXCEPT !.shutdown = "closing", !.shutdownLeft = Cardinality(ids)],
                   SetToSeq(ids))


\* ------------------------------------------------ LevelUpPersistence: state
\* options.ttl.subscriptions, in ms (the option the store is constructed with).
TtlSubscriptions == 2500
\* options.ttl.packets, in ms (the option the store is constructed with; no
\* method of the store reads it).
TtlPackets == 1250
\* storeSubscriptions / lookupSubscriptions / streamOfflinePackets calls in one
\* behaviour.
MaxStores == 2
MaxLookups == 1
MaxStreams == 1

VARIABLES
  dbClientSubscriptions, \* _clientSubscriptions: client id -> [on, subs, exp]
  dbSubscriptions,       \* _subscriptions: level key -> [on, qos, exp]
  dbOfflinePackets,      \* _offlinePackets: the rows [client, at, topic, msg, exp], keyed by client and at
  dbRetained,            \* _retained: topic -> [on, packet]
  subLobber,             \* _subLobber: the pairs [topic, val] added to the matcher
  pending,               \* the operations handed to the database and not yet performed, in order
  eachLeft,              \* async.each of storeOfflinePacket: call -> [left, called]
  \* what the store reported (history)
  lookupDone,            \* done of lookupSubscriptions: [client, clean, result, left]
  storeDone,             \* done calls of storeSubscriptions
  streamDone,            \* done of streamOfflinePackets: [client, clean, rows, left, yielded]
  offlineDone,           \* done of storeOfflinePacket: [call, err]
  stored,                \* _storePacket's puts performed: [client, topic, msg, at, subs]
  yielded,               \* the packets streamOfflinePackets passed to its cb, in order
  retainedCalls,         \* the packets storeRetained was called with, in order
  retainedDone,          \* cb of lookupRetained: [pattern, matched, calls]
  nStore, nLookup, nStream   \* calls made so far

stoVars == <<dbClientSubscriptions, dbSubscriptions, dbOfflinePackets, dbRetained,
             subLobber, pending, eachLeft, lookupDone, storeDone, streamDone,
             offlineDone, stored, yielded, retainedCalls, retainedDone,
             nStore, nLookup, nStream>>

\* util.format("%s:%s", key, client.id), for ids and filters without ":".
LevelKey(key, c) == [topic |-> key, client |-> c]
LevelKeys == [topic : Filters, client : ClientIds]

NoSubs == [f \in Filters |-> 0]
NoRecord == [on |-> FALSE, subs |-> NoSubs, exp |-> 0]
NoRow == [on |-> FALSE, qos |-> 0, exp |-> 0]
\* An operation handed to the database (one shape for every kind).
Op(kind, c) ==
  [op |-> kind, client |-> c, clean |-> FALSE, key |-> LevelKey(<<>>, NoId),
   subs |-> NoSubs, qos |-> 0, topic |-> <<>>, msg |-> 0, at |-> 0, exp |-> 0,
   then |-> "none", cb |-> "none", conn |-> NoConn, left |-> <<>>,
   payload |-> 0, calls |-> <<>>, rows |-> <<>>]

CurDb ==
  [cs |-> dbClientSubscriptions, rows |-> dbSubscriptions, pkts |-> dbOfflinePackets,
   lobber |-> subLobber, pending |-> pending, each |-> eachLeft,
   lookupDone |-> lookupDone, storeDone |-> storeDone, streamDone |-> streamDone,
   offlineDone |-> offlineDone, stored |-> stored, yielded |-> yielded,
   retained |-> dbRetained, retainedCalls |-> retainedCalls,
   retainedDone |-> retainedDone, out |-> <<>>]

CommitDb(d) ==
  /\ dbClientSubscriptions' = d.cs /\ dbSubscriptions' = d.rows
  /\ dbOfflinePackets' = d.pkts /\ subLobber' = d.lobber
  /\ pending' = d.pending /\ eachLeft' = d.each
  /\ lookupDone' = d.lookupDone /\ storeDone' = d.storeDone
  /\ streamDone' = d.streamDone /\ offlineDone' = d.offlineDone
  /\ stored' = d.stored /\ yielded' = d.yielded
  /\ dbRetained' = d.retained /\ retainedCalls' = d.retainedCalls
  /\ retainedDone' = d.retainedDone

Enq(d, op) == [d EXCEPT !.pending = Append(@, op)]

\* ------------------------------------------------------- the topic matcher
SubLobberAdd(m, filter, token) == m \cup {[topic |-> filter, val |-> token]}
SubLobberRemove(m, token) == {e \in m : e.val # token}
SubLobberMatch(m, topic) == {e.val : e \in {x \in m : Matches(x.topic, topic)}}

\* ------------------------------------------ LevelUpPersistence: the methods
\* The subscriptions storeSubscriptions keeps: those with qos > 0.
Durable(csubs) ==
  [f \in Filters |-> IF csubs[f].on /\ csubs[f].qos > 0 THEN csubs[f].qos ELSE 0]

\* storeSubscriptions: the forEach over the kept keys (lines 319-328)
RECURSIVE PutRows(_, _, _, _, _)
PutRows(d, c, subs, keys, t) ==
  IF keys = <<>> THEN d
  ELSE LET key == Head(keys)
           levelKey == LevelKey(key, c)
           d1 == [d EXCEPT !.lobber = SubLobberAdd(@, key, levelKey)]
       IN PutRows(Enq(d1, [Op("put_row", c) EXCEPT
                             !.key = levelKey, !.qos = subs[key],
                             !.exp = t + TtlSubscriptions]),
                  c, subs, Tail(keys), t)

\* storeSubscriptions(client, done) at time t; csubs is client.subscriptions
StoreSubscriptions(d, c, clean, csubs, t) ==
  IF ~clean
  THEN LET subs == Durable(csubs)
           d1 == Enq(d, [Op("put_record", c) EXCEPT
                           !.subs = subs, !.exp = t + TtlSubscriptions])
       IN PutRows(d1, c, subs, SetToSeq({f \in Filters : subs[f] > 0}), t)
  ELSE [d EXCEPT !.storeDone = @ + 1]

\* lookupSubscriptions(client, done); cb names what done does, for connection k
LookupSubscriptions(d, c, clean, cb, k) ==
  Enq(d, [Op("get_record", c) EXCEPT !.clean = clean, !.cb = cb, !.conn = k])

\* The rows of a set of offline packets in key order (the ISO timestamp).
RECURSIVE SortPkts(_)
SortPkts(S) ==
  IF S = {} THEN <<>>
  ELSE LET p == CHOOSE x \in S : \A y \in S : x.at <= y.at
       IN <<p>> \o SortPkts(S \ {p})

\* streamOfflinePackets(client, cb, done): the range stream over the client's
\* rows; then names done ("lookup": the function of lines 340-350), cb what the
\* caller's callback does.
StreamOfflinePackets(d, c, clean, then, subs, cb, k) ==
  Enq(d, [Op("stream", c) EXCEPT
            !.clean = clean, !.then = then, !.subs = subs, !.cb = cb, !.conn = k,
            !.left = SortPkts({p \in d.pkts : p.client = c}),
            !.rows = SortPkts({p \in d.pkts : p.client = c})])

\* _storePacket(client, packet, cb) at time t
StorePacket(d, c, op, t) ==
  Enq(d, [op EXCEPT !.op = "put_pkt", !.client = c, !.at = t,
                    !.exp = t + TtlSubscriptions])

\* storeOfflinePacket(packet, done): async.each over the matcher's keys
RECURSIVE GetRows(_, _, _)
GetRows(d, keys, op) ==
  IF keys = <<>> THEN d
  ELSE GetRows(Enq(d, [op EXCEPT !.key = Head(keys)]), Tail(keys), op)
StoreOfflinePacket(d, topic, msg, qos) ==
  LET subs == SubLobberMatch(d.lobber, topic)
  IN IF subs = {}
     THEN [d EXCEPT !.offlineDone = @ \cup {[call |-> msg, err |-> FALSE]}]
     ELSE GetRows([d EXCEPT !.each = PutInflight(@, msg, [left |-> Cardinality(subs),
                                                           called |-> FALSE])],
                  SetToSeq(subs),
                  [Op("get_row", NoId) EXCEPT !.topic = topic, !.msg = msg, !.qos = qos])

\* async.each: one iterator called back, with an error or not
EachError(d, call) ==
  IF d.each[call].called THEN d
  ELSE [d EXCEPT !.each[call].called = TRUE,
                 !.offlineDone = @ \cup {[call |-> call, err |-> TRUE]}]
EachDone(d, call) ==
  LET e == d.each[call]
  IN IF e.called THEN d
     ELSE IF e.left = 1
     THEN [d EXCEPT !.each[call] = [left |-> 0, called |-> TRUE],
                    !.offlineDone = @ \cup {[call |-> call, err |-> FALSE]}]
     ELSE [d EXCEPT !.each[call].left = @ - 1]

\* What the store still holds for client c.
Leftovers(d, c) ==
  [record |-> d.cs[c].on,
   rows |-> {key \in LevelKeys : key.client = c /\ d.rows[key].on},
   pkts |-> {p.at : p \in {x \in d.pkts : x.client = c}},
   tokens |-> {e.val : e \in {x \in d.lobber : x.val.client = c}}]

\* A callback the store makes into the server, run in the same step.
Out(kind, k) ==
  [kind |-> kind, conn |-> k, subs |-> NoSubs, topic |-> <<>>, msg |-> 0, qos |-> 0]

\* The supervisor's done of lookupSubscriptions when a session has connected:
\* the returned filters are registered for the session, then its offline
\* packets are streamed and forwarded to it.
SessionRestored(d, op, result) ==
  LET d1 == [d EXCEPT !.out = Append(@, [Out("restore", op.conn) EXCEPT !.subs = result])]
  IN StreamOfflinePackets(d1, op.client, op.clean, "caller", NoSubs, "forward", op.conn)

\* done(null, result) of lookupSubscriptions
LookupDone(d, op, result) ==
  LET d1 == [d EXCEPT !.lookupDone = @ \cup
               {[client |-> op.client, clean |-> op.clean, result |-> result,
                 left |-> Leftovers(d, op.client)]}]
  IN IF op.cb = "session" THEN SessionRestored(d1, op, result) ELSE d1

\* lookupSubscriptions: the callback of get (lines 337-361)
OnGetRecord(d, op) ==
  LET rec == d.cs[op.client]
  IN IF rec.on /\ op.clean
     THEN Enq(d, [op EXCEPT !.op = "del_record", !.subs = rec.subs])
     ELSE LookupDone(d, op, IF rec.on THEN rec.subs ELSE NoSubs)

\* lookupSubscriptions: the callback of del (lines 339-340)
OnDelRecord(d, op) ==
  StreamOfflinePackets([d EXCEPT !.cs[op.client] = NoRecord],
                       op.client, op.clean, "lookup", op.subs, op.cb, op.conn)

\* lookupSubscriptions: the done it passes to streamOfflinePackets (lines 340-350)
RECURSIVE DelRows(_, _, _)
DelRows(d, c, keys) ==
  IF keys = <<>> THEN d
  ELSE LET levelKey == LevelKey(Head(keys), c)
           d1 == [d EXCEPT !.lobber = SubLobberRemove(@, levelKey)]
       IN DelRows(Enq(d1, [Op("del_row", c) EXCEPT !.key = levelKey]), c, Tail(keys))
OnDrained(d, op) ==
  LookupDone(DelRows(d, op.client, SetToSeq({f \in Filters : op.subs[f] > 0})),
             op, NoSubs)

\* streamOfflinePackets: the stream's next event, "data" (lines 382-389) or
\* "end" (line 396)
OnStream(d, op) ==
  IF op.left = <<>>
  THEN IF op.then = "lookup" THEN OnDrained(d, op)
       ELSE [d EXCEPT !.streamDone = @ \cup
               {[client |-> op.client, clean |-> op.clean, rows |-> op.rows,
                 left |-> Leftovers(d, op.client).pkts, yielded |-> d.yielded]}]
  ELSE LET data == Head(op.left)
           del == [Op("del_pkt", op.client) EXCEPT
                     !.clean = op.clean, !.at = data.at, !.topic = data.topic,
                     !.msg = data.msg, !.qos = data.qos, !.cb = op.cb, !.conn = op.conn]
       IN Enq(Enq(d, del), [op EXCEPT !.left = Tail(@)])

\* streamOfflinePackets: the callback of del (lines 384-388)
OnDelPacket(d, op) ==
  LET d1 == [d EXCEPT !.pkts = {p \in @ : ~(p.client = op.client /\ p.at = op.at)}]
  IN IF op.clean THEN d1
     ELSE LET d2 == [d1 EXCEPT !.yielded = Append(@, [client |-> op.client, msg |-> op.msg])]
          IN IF op.cb = "forward"
             THEN [d2 EXCEPT !.out = Append(@, [Out("forward", op.conn) EXCEPT
                                                  !.topic = op.topic, !.msg = op.msg,
                                                  !.qos = op.qos])]
             ELSE d2

\* A PUBLISH packet as the retained store sees it: payload is its length.
Packet(topic, payload, msg) == [topic |-> topic, payload |-> payload, msg |-> msg]

\* storeRetained(packet, cb)
StoreRetained(d, packet) ==
  Enq([d EXCEPT !.retainedCalls = Append(@, packet)],
      [Op("put_retained", NoId) EXCEPT
         !.topic = packet.topic, !.payload = packet.payload, !.msg = packet.msg])

\* lookupRetained(pattern, cb): the read stream over _retained
LookupRetained(d, pattern) ==
  Enq(d, [Op("stream_retained", NoId) EXCEPT !.topic = pattern, !.calls = d.retainedCalls])

\* storeRetained: the put is performed
OnPutRetained(d, op) ==
  [d EXCEPT !.retained[op.topic] =
     [on |-> TRUE, packet |-> Packet(op.topic, op.payload, op.msg)]]

\* lookupRetained: the stream's "data" events (lines 298-302), in key order,
\* then "end" (lines 294-296)
RECURSIVE MatchedRetained(_, _, _)
MatchedRetained(d, pattern, keys) ==
  IF keys = <<>> THEN <<>>
  ELSE (IF Matches(pattern, Head(keys)) THEN <<d.retained[Head(keys)].packet>> ELSE <<>>)
       \o MatchedRetained(d, pattern, Tail(keys))
OnRetainedStream(d, op) ==
  LET keys == SetToSeq({t \in Topics : d.retained[t].on})
  IN [d EXCEPT !.retainedDone = @ \cup
        {[pattern |-> op.topic, matched |-> MatchedRetained(d, op.topic, keys),
          calls |-> op.calls]}]

\* storeOfflinePacket: the callback of get (lines 369-374), at time t
OnGetRow(d, op, t) ==
  IF ~d.rows[op.key].on THEN EachError(d, op.msg)
  ELSE StorePacket(d, op.key.client, op, t)

\* _storePacket: the put is performed and calls back
OnPutPacket(d, op) ==
  LET row == [client |-> op.client, at |-> op.at, topic |-> op.topic,
              msg |-> op.msg, qos |-> op.qos, exp |-> op.exp]
      d1 == [d EXCEPT !.pkts = {p \in @ : ~(p.client = op.client /\ p.at = op.at)}
                                 \cup {row},
                      !.stored = @ \cup
                        {[client |-> op.client, topic |-> op.topic, msg |-> op.msg,
                          at |-> op.at,
                          subs |-> IF d.cs[op.client].on THEN d.cs[op.client].subs
                                   ELSE NoSubs]}]
  IN EachDone(d1, op.msg)

\* The database performs the oldest operation handed to it, at time t.
DbStep(d0, t) ==
  LET op == Head(d0.pending)
      d == [d0 EXCEPT !.pending = Tail(@)]
  IN CASE op.op = "put_record" ->
            [d EXCEPT !.cs[op.client] = [on |-> TRUE, subs |-> op.subs, exp |-> op.exp],
                      !.storeDone = @ + 1]
       [] op.op = "put_row" ->
            [d EXCEPT !.rows[op.key] = [on |-> TRUE, qos |-> op.qos, exp |-> op.exp]]
       [] op.op = "del_row" -> [d EXCEPT !.rows[op.key] = NoRow]
       [] op.op = "get_record" -> OnGetRecord(d, op)
       [] op.op = "del_record" -> OnDelRecord(d, op)
       [] op.op = "stream" -> OnStream(d, op)
       [] op.op = "del_pkt" -> OnDelPacket(d, op)
       [] op.op = "get_row" -> OnGetRow(d, op, t)
       [] op.op = "put_retained" -> OnPutRetained(d, op)
       [] op.op = "stream_retained" -> OnRetainedStream(d, op)
       [] OTHER -> OnPutPacket(d, op)

\* The stream's next event comes before the callbacks of the deletes its
\* "data" handlers issued: the operation at i is moved to the front.
Overtake(d, i) ==
  [d EXCEPT !.pending = <<@[i]>> \o SubSeq(@, 1, i - 1) \o SubSeq(@, i + 1, Len(@))]

\* level-ttl's periodic check at time t: the entries whose time has come go.
Expired(d, t) ==
  \/ \E c \in ClientIds : d.cs[c].on /\ d.cs[c].exp <= t
  \/ \E key \in LevelKeys : d.rows[key].on /\ d.rows[key].exp <= t
  \/ \E p \in d.pkts : p.exp <= t
TtlCheck(d, t) ==
  [d EXCEPT !.cs = [c \in ClientIds |-> IF @[c].on /\ @[c].exp <= t THEN NoRecord ELSE @[c]],
            !.rows = [key \in LevelKeys |->
                        IF @[key].on /\ @[key].exp <= t THEN NoRow ELSE @[key]],
            !.pkts = {p \in @ : p.exp > t}]

\* The constructor over the database as it is: the matcher is rebuilt from
\* the rows of _subscriptions (lines 260-272).
Rebuild(d) ==
  [d EXCEPT !.lobber = {[topic |-> key.topic, val |-> key] :
                          key \in {x \in LevelKeys : d.rows[x].on}}]

StoInit ==
  /\ dbClientSubscriptions = [c \in ClientIds |-> NoRecord]
  /\ dbSubscriptions = [key \in LevelKeys |-> NoRow]
  /\ dbOfflinePackets = {}
  /\ dbRetained = [t \in Topics |-> [on |-> FALSE, packet |-> Packet(<<>>, 0, 0)]]
  /\ retainedCalls = <<>>
  /\ retainedDone = {}
  /\ subLobber = {}
  /\ pending = <<>>
  /\ eachLeft = <<>>
  /\ lookupDone = {}
  /\ storeDone = 0
  /\ streamDone = {}
  /\ offlineDone = {}
  /\ stored = {}
  /\ yielded = <<>>
  /\ nStore = 0 /\ nLookup = 0 /\ nStream = 0

\* ------------------------------------------ the supervisor and persistence
VARIABLES
  clean,         \* client.clean, from the CONNECT flag
  busDelivered,  \* [client, msg]: the bus forwarded publish msg to an open session of client
  owed           \* [client, msg, connected]: client held a durable subscription matching publish msg

wireVars == <<clean, busDelivered, owed>>

WireInit ==
  /\ clean = [k \in Conns |-> FALSE]
  /\ busDelivered = {}
  /\ owed = {}

\* The store's callbacks into the server: the filters of a restored session
\* are registered on the bus and placed in client.subscriptions; an offline
\* packet is forwarded to the session under a filter it holds.
RECURSIVE Restore(_, _, _, _)
Restore(st, k, subs, fs) ==
  IF fs = <<>> THEN st
  ELSE LET f == Head(fs)
           s1 == BusAdd(st, [conn |-> k, topic |-> f, qos |-> subs[f]])
       IN Restore([s1 EXCEPT !.subscriptions[k][f] =
                     [on |-> TRUE, qos |-> subs[f], hqos |-> subs[f]]],
                  k, subs, Tail(fs))
ForwardOffline(st, o) ==
  LET k == o.conn
      fs == {f \in Held(st, k) : Matches(f, o.topic)}
  IN IF ~st.listeners[k] \/ fs = {} THEN st
     ELSE LET f == CHOOSE x \in fs : TRUE
          IN Forward(st, [conn |-> k, topic |-> f, qos |-> st.subscriptions[k][f].hqos],
                     o.qos, o.msg)
RECURSIVE ApplyOut(_, _)
ApplyOut(st, out) ==
  IF out = <<>> THEN st
  ELSE LET o == Head(out)
       IN ApplyOut(IF o.kind = "restore"
                   THEN IF st.listeners[o.conn]
                        THEN Restore(st, o.conn, o.subs,
                                     SetToSeq({f \in Filters : o.subs[f] > 0}))
                        ELSE st
                   ELSE ForwardOffline(st, o),
                   Tail(out))

vars == <<srvVars, stoVars, wireVars>>

\* ------------------------------------------------------------------ Init
\* Every connection has been accepted and served (lines 625-628, 878).
SrvInit ==
  /\ clients = [c \in ClientIds |-> NoConn]
  /\ id = [k \in Conns |-> NoId]
  /\ keepalive = [k \in Conns |-> 0]
  /\ will = [k \in Conns |-> FALSE]
  /\ timer = [k \in Conns |-> NoTimer]
  /\ subscriptions = [k \in Conns |-> [f \in Filters |-> NoSub]]
  /\ bus = [h \in Handlers |-> 0]
  /\ nextId \in [Conns -> InitIds]
  /\ inflight = [k \in Conns |-> <<>>]
  /\ closed = [k \in Conns |-> FALSE]
  /\ onclose = [k \in Conns |-> TRUE]
  /\ listeners = [k \in Conns |-> TRUE]
  /\ streamEnded = [k \in Conns |-> FALSE]
  /\ stream = [k \in Conns |-> "open"]
  /\ endCleanups = [k \in Conns |-> <<>>]
  /\ deferred = <<>>
  /\ shutdown = "no"
  /\ shutdownLeft = 0
  /\ uncaught = FALSE
  /\ now = 0
  /\ connectedEv = [k \in Conns |-> 0]
  /\ disconnectedEv = [k \in Conns |-> 0]
  /\ errorEv = [k \in Conns |-> 0]
  /\ willPub = [k \in Conns |-> 0]
  /\ connacks = [k \in Conns |-> <<>>]
  /\ sent = {}
  /\ acks = {}
  /\ unknownAcks = {}
  /\ exhausted = {}
  /\ published = {}
  /\ pubacks = {}
  /\ subacks = [k \in Conns |-> <<>>]
  /\ unsubacks = [k \in Conns |-> 0]
  /\ pingresps = [k \in Conns |-> 0]
  /\ disconnects = [k \in Conns |-> 0]
  /\ denied = [k \in Conns |-> 0]
  /\ publishes = {}
  /\ verdicts = [k \in Conns |-> <<>>]
  /\ lastRecv = [conn |-> NoConn, type |-> "none"]
  /\ nPublish = 0 /\ nConnect = 0 /\ nSubscribe = 0 /\ nPing = 0 /\ nPuback = 0

Init == SrvInit /\ StoInit /\ WireInit

\* --------------------------------------------------------------- actions
\* A packet of connection k can be handled.
Recv(k) == ~uncaught /\ listeners[k] /\ stream[k] = "open"

\* A step that handles a packet of connection k, and a step that handles none.
RecvStep(st, k, type) == Commit(Mark(st, k, type)) /\ UNCHANGED <<stoVars, wireVars>>
Step(st) == Commit(Mark(st, NoConn, "none")) /\ UNCHANGED <<stoVars, wireVars>>

\* The entries of a SUBSCRIBE packet.
Entry == [topic : Filters, qos : {0, 1, 2}, ok : BOOLEAN]
Entries == UNION {[1..n -> Entry] : n \in 1..MaxEntries}
\* One authorized entry.
OneEntry == {<<e>> : e \in {x \in Entry : x.ok}}

\* authenticate reported v for a CONNECT of k; st is the state after the handler.
Verdict(st, k, v) == [st EXCEPT !.verdicts[k] = Append(@, v)]

\* CONNECT with a client id of ids, a will or not as in wills, and authenticate
\* reporting one of vs.
ConnectRecv(k, ids, vs, wills) ==
  /\ Recv(k) /\ nConnect < MaxConnects
  /\ \E c \in ids, v \in vs, ka \in KeepAlives, w \in wills :
       RecvStep(Verdict(OnConnect(Cur, k, c, v, ka, w), k, v), k, "connect")
  /\ nConnect' = nConnect + 1
  /\ UNCHANGED <<now, nPublish, nSubscribe, nPing, nPuback>>

\* PUBACK with the id of a packet that was sent to k.
PubackRecv(k) ==
  /\ Recv(k) /\ nPuback < MaxPubacks
  /\ \E mid \in {s.id : s \in {x \in sent : x.conn = k}} :
       RecvStep(OnPuback(Cur, k, mid), k, "puback")
  /\ nPuback' = nPuback + 1
  /\ UNCHANGED <<now, nPublish, nSubscribe, nPing, nConnect>>

PingreqRecv(k) ==
  /\ Recv(k) /\ nPing < MaxPings
  /\ RecvStep(OnPingreq(Cur, k), k, "pingreq")
  /\ nPing' = nPing + 1
  /\ UNCHANGED <<now, nPublish, nSubscribe, nPuback, nConnect>>

\* SUBSCRIBE with the entries es of ess.
SubscribeRecv(k, ess) ==
  /\ Recv(k) /\ nSubscribe < MaxSubscribes
  /\ \E es \in ess :
       RecvStep(OnSubscribe(Cur, k, es), k, "subscribe")
  /\ nSubscribe' = nSubscribe + 1
  /\ UNCHANGED <<now, nPublish, nPing, nPuback, nConnect>>

UnsubscribeRecv(k) ==
  /\ Recv(k) /\ nSubscribe < MaxSubscribes
  /\ \E ts \in (SUBSET Filters) \ {{}} :
       RecvStep(OnUnsubscribe(Cur, k, ts), k, "unsubscribe")
  /\ nSubscribe' = nSubscribe + 1
  /\ UNCHANGED <<now, nPublish, nPing, nPuback, nConnect>>

\* PUBLISH msg of k with qos q was received in state st0 and authorizePublish
\* reported ok; st is the state after the handler.
Received(st, st0, k, q, ok, msg) ==
  [st EXCEPT !.publishes = @ \cup {[conn |-> k, msg |-> msg, qos |-> q, ok |-> ok,
                                     held |-> Held(st0, k)]}]

\* PUBLISH on a topic of ts with a qos of qs, authorizePublish reporting one of oks.
PublishRecv(k, ts, qs, oks) ==
  /\ Recv(k) /\ nPublish < MaxPublishes /\ shutdown # "closed"
  /\ \E t \in ts, q \in qs, ok \in oks :
       RecvStep(Received(OnPublish(Cur, k, t, q, ok, nPublish + 1), Cur, k, q, ok,
                         nPublish + 1),
                k, "publish")
  /\ nPublish' = nPublish + 1
  /\ UNCHANGED <<now, nSubscribe, nPing, nPuback, nConnect>>

DisconnectRecv(k) ==
  /\ Recv(k) /\ disconnects[k] < MaxDisconnects
  /\ RecvStep(OnDisconnect(Cur, k), k, "disconnect")
  /\ UNCHANGED <<now, cntVars>>

\* The stream or the parser reports an error: client.on("error").
ClientError(k) ==
  /\ Recv(k) /\ errorEv[k] = 0
  /\ Step(EmitError(Cur, k))
  /\ UNCHANGED <<now, cntVars>>

Subscribed ==
  /\ ~uncaught /\ deferred # <<>> /\ Head(deferred).kind = "subscribed"
  /\ Step(OnSubscribed([Cur EXCEPT !.deferred = Tail(@)], Head(deferred)))
  /\ UNCHANGED <<now, cntVars>>

Unsubscribed ==
  /\ ~uncaught /\ deferred # <<>> /\ Head(deferred).kind = "unsubscribed"
  /\ Step(OnUnsubscribed([Cur EXCEPT !.deferred = Tail(@)], Head(deferred)))
  /\ UNCHANGED <<now, cntVars>>

Published ==
  /\ ~uncaught /\ deferred # <<>> /\ Head(deferred).kind = "published"
  /\ Step(OnPublished([Cur EXCEPT !.deferred = Tail(@)], Head(deferred)))
  /\ UNCHANGED <<now, cntVars>>

RetryTimeout(k) ==
  /\ ~uncaught
  /\ \E mid \in DOMAIN inflight[k] :
       /\ inflight[k][mid].armed
       /\ Step(OnRetry(Cur, k, mid))
  /\ UNCHANGED <<now, cntVars>>

KeepaliveTimeout(k) ==
  /\ ~uncaught /\ timer[k].armed /\ timer[k].left = 0
  /\ Step(OnKeepalive(Cur, k))
  /\ UNCHANGED <<now, cntVars>>

StreamEnd(k) ==
  /\ ~uncaught /\ stream[k] = "open"
  /\ Step(OnStreamEnd(Cur, k))
  /\ UNCHANGED <<now, cntVars>>

StreamClose(k) ==
  /\ ~uncaught /\ stream[k] \in {"open", "end"}
  /\ Step(OnClose(Cur, k))
  /\ UNCHANGED <<now, cntVars>>

ServerClose ==
  /\ ~uncaught /\ shutdown = "no"
  /\ Step(OnServerClose(Cur))
  /\ UNCHANGED <<now, cntVars>>

\* Time passes; a timer that is due fires before more time passes.
OnTick(st) ==
  [st EXCEPT !.timer =
     [k \in Conns |->
        IF st.timer[k].armed
        THEN [st.timer[k] EXCEPT !.left = IF @ > TickMs THEN @ - TickMs ELSE 0]
        ELSE st.timer[k]]]
Tick ==
  /\ ~uncaught /\ now < MaxTicks * TickMs
  /\ \A k \in Conns : timer[k].armed => timer[k].left > 0
  /\ now' = now + TickMs
  /\ Step(OnTick(Cur))
  /\ UNCHANGED cntVars

\* -------------------------------------------------- sessions: SpecSession
\* One client: CONNECT, keepalive, PINGREQ, PUBLISH, DISCONNECT, the ends of
\* the stream, the will and Server.close.  The client sends CONNECT first.
Connected(k) == connectedEv[k] > 0
NextSession ==
  \/ ConnectRecv("k1", {"A"}, {"ok", "deny"}, BOOLEAN)
  \/ Connected("k1") /\ PingreqRecv("k1")
  \/ Connected("k1") /\ PublishRecv("k1", {WillTopic}, {0}, BOOLEAN)
  \/ Connected("k1") /\ DisconnectRecv("k1")
  \/ ClientError("k1")
  \/ Published
  \/ KeepaliveTimeout("k1")
  \/ StreamEnd("k1")
  \/ StreamClose("k1")
  \/ ServerClose
  \/ Tick

SpecSession == Init /\ [][NextSession]_vars

\* ------------------------------------------------ same id: SpecTakeover
\* Two connections that CONNECT, with the same client id or not, and end.
NextTakeover ==
  \/ \E k \in Conns : ConnectRecv(k, ClientIds, {"ok", "deny", "err"}, {FALSE})
  \/ \E k \in Conns : DisconnectRecv(k)
  \/ \E k \in Conns : StreamEnd(k)
  \/ \E k \in Conns : StreamClose(k)
  \/ ServerClose

SpecTakeover == Init /\ [][NextTakeover]_vars

\* ------------------------------------------------- delivery: SpecDelivery
\* One client that subscribes and publishes to itself: SUBSCRIBE, PUBLISH,
\* forward, the retransmit timers, PUBACK, and the ends of its session.  It
\* sends one CONNECT, first.
Qos1Entry == {<<e>> : e \in {x \in Entry : x.ok /\ x.qos = 1}}
NextDelivery ==
  \/ ~Connected("k1") /\ ConnectRecv("k1", {"A"}, {"ok"}, {FALSE})
  \/ Connected("k1") /\ SubscribeRecv("k1", Qos1Entry)
  \/ Connected("k1") /\ PublishRecv("k1", {<<"a", "b">>}, {0, 1}, {TRUE})
  \/ Connected("k1") /\ PubackRecv("k1")
  \/ Connected("k1") /\ DisconnectRecv("k1")
  \/ Subscribed
  \/ Unsubscribed
  \/ Published
  \/ RetryTimeout("k1")
  \/ StreamEnd("k1")
  \/ StreamClose("k1")

SpecDelivery == Init /\ [][NextDelivery]_vars

\* ------------------------------------------------ any order: SpecEarly
\* One client that sends its packets in any order, before a CONNECT or after.
NextEarly ==
  \/ ConnectRecv("k1", {"A"}, {"ok", "deny"}, {FALSE})
  \/ PingreqRecv("k1")
  \/ SubscribeRecv("k1", Qos1Entry)
  \/ UnsubscribeRecv("k1")
  \/ PublishRecv("k1", {<<"a", "b">>}, {0, 1}, BOOLEAN)
  \/ PubackRecv("k1")
  \/ Subscribed
  \/ Unsubscribed
  \/ Published
  \/ StreamClose("k1")

SpecEarly == Init /\ [][NextEarly]_vars

\* ------------------------------------------------ message ids: SpecIds
\* A subscriber k1 that subscribes to both filters, once, and a publisher k2
\* with a will: what k2 publishes and its will are forwarded to k1.
NextIds ==
  \/ ~Connected("k1") /\ ConnectRecv("k1", {"A"}, {"ok"}, {FALSE})
  \/ ~Connected("k2") /\ ConnectRecv("k2", {"B"}, {"ok"}, {TRUE})
  \/ Connected("k1") /\ nSubscribe = 0
       /\ SubscribeRecv("k1", {<<[topic |-> <<"a", "+">>, qos |-> q, ok |-> TRUE],
                                 [topic |-> <<"#">>, qos |-> q, ok |-> TRUE]>> : q \in {0, 1}})
  \/ Connected("k2") /\ PublishRecv("k2", {<<"a", "b">>}, {0, 1}, {TRUE})
  \/ Connected("k1") /\ PubackRecv("k1")
  \/ Subscribed
  \/ Published
  \/ StreamClose("k2")

SpecIds == Init /\ [][NextIds]_vars

\* ------------------------------------------------------- closing: SpecLeak
\* A subscriber k1 and a publisher k2, and every way the subscriber's session
\* closes: DISCONNECT, the ends of the stream, the keepalive timer, a denied
\* SUBSCRIBE, a client error, Server.close.  Both send one CONNECT, first.
OneOrTwo == Qos1Entry \cup {<<e1, e2>> : e1 \in {x \in Entry : x.ok /\ x.qos = 1 /\ x.topic = <<"#">>},
                                        e2 \in {x \in Entry : ~x.ok /\ x.qos = 1 /\ x.topic = <<"a", "+">>}}
NextLeak ==
  \/ ~Connected("k1") /\ ConnectRecv("k1", {"A"}, {"ok"}, {FALSE})
  \/ ~Connected("k2") /\ ConnectRecv("k2", {"B"}, {"ok"}, {FALSE})
  \/ Connected("k1") /\ SubscribeRecv("k1", OneOrTwo)
  \/ Connected("k2") /\ PublishRecv("k2", {<<"a", "b">>}, {1}, {TRUE})
  \/ Connected("k1") /\ DisconnectRecv("k1")
  \/ ClientError("k1")
  \/ Subscribed
  \/ Unsubscribed
  \/ Published
  \/ KeepaliveTimeout("k1")
  \/ StreamEnd("k1")
  \/ StreamClose("k1")
  \/ ServerClose
  \/ Tick

SpecLeak == Init /\ [][NextLeak]_vars

\* ------------------------------------------------- persistence: SpecStore
\* The maps client.subscriptions can be.
SubMap(S, q) ==
  [f \in Filters |-> IF f \in S THEN [on |-> TRUE, qos |-> q, hqos |-> q] ELSE NoSub]
SubMaps == {SubMap(S, q) : S \in SUBSET Filters, q \in {0, 1}}
\* Those with qos 1.
DurableMaps == {SubMap(S, 1) : S \in SUBSET Filters}

StoreSubscriptionsCall(cs, cleans, maps) ==
  /\ nStore < MaxStores
  /\ \E c \in cs, cl \in cleans, m \in maps :
       CommitDb(StoreSubscriptions(CurDb, c, cl, m, now))
  /\ nStore' = nStore + 1
  /\ UNCHANGED <<srvVars, wireVars, nLookup, nStream>>

LookupSubscriptionsCall(cs, cleans) ==
  /\ nLookup < MaxLookups
  /\ \E c \in cs, cl \in cleans :
       CommitDb(LookupSubscriptions(CurDb, c, cl, "none", NoConn))
  /\ nLookup' = nLookup + 1
  /\ UNCHANGED <<srvVars, wireVars, nStore, nStream>>

StreamOfflinePacketsCall(cs, cleans) ==
  /\ nStream < MaxStreams
  /\ \E c \in cs, cl \in cleans :
       CommitDb(StreamOfflinePackets(CurDb, c, cl, "caller", NoSubs, "none", NoConn))
  /\ nStream' = nStream + 1
  /\ UNCHANGED <<srvVars, wireVars, nStore, nLookup>>

StoreOfflinePacketCall(ts) ==
  /\ nPublish < MaxPublishes
  /\ \E t \in ts : CommitDb(StoreOfflinePacket(CurDb, t, nPublish + 1, 1))
  /\ nPublish' = nPublish + 1
  /\ UNCHANGED <<curVars, now, nConnect, nSubscribe, nPing, nPuback, wireVars,
                 nStore, nLookup, nStream>>

\* The database performs an operation; what it calls back in the server runs.
Db ==
  /\ ~uncaught /\ pending # <<>>
  /\ LET d == DbStep(CurDb, now)
     IN /\ CommitDb(d)
        /\ Commit(Mark(ApplyOut(Cur, d.out), NoConn, "none"))
  /\ UNCHANGED <<now, cntVars, wireVars, nStore, nLookup, nStream>>

\* The iterator of a range stream and the deletes its "data" handlers issued
\* complete in any order: the stream's next event is emitted while deletes
\* handed to the database before it have not called back.
DbStream ==
  /\ ~uncaught
  /\ \E i \in 2..Len(pending) :
       /\ pending[i].op = "stream"
       /\ \A j \in 1..(i - 1) : pending[j].op = "del_pkt"
       /\ LET d == DbStep(Overtake(CurDb, i), now)
          IN /\ CommitDb(d)
             /\ Commit(Mark(ApplyOut(Cur, d.out), NoConn, "none"))
  /\ UNCHANGED <<now, cntVars, wireVars, nStore, nLookup, nStream>>

TtlSweep ==
  /\ Expired(CurDb, now)
  /\ CommitDb(TtlCheck(CurDb, now))
  /\ UNCHANGED <<srvVars, wireVars, nStore, nLookup, nStream>>

\* The process is restarted over the same database.
Restart ==
  /\ pending = <<>>
  /\ CommitDb(Rebuild(CurDb))
  /\ UNCHANGED <<srvVars, wireVars, nStore, nLookup, nStream>>

NextStore ==
  \/ StoreSubscriptionsCall({"A"}, BOOLEAN, DurableMaps)
  \/ LookupSubscriptionsCall({"A"}, BOOLEAN)
  \/ StoreOfflinePacketCall(Topics)
  \/ Db
  \/ TtlSweep
  \/ Restart
  \/ Tick

SpecStore == Init /\ [][NextStore]_vars

\* ------------------------------------------------ clean start: SpecClean
\* A client's subscriptions are stored, then looked up, while packets are
\* published.
NextClean ==
  \/ nLookup = 0 /\ StoreSubscriptionsCall({"A"}, {FALSE}, DurableMaps)
  \/ LookupSubscriptionsCall({"A"}, BOOLEAN)
  \/ StoreOfflinePacketCall(Topics)
  \/ Db

SpecClean == Init /\ [][NextClean]_vars

\* ------------------------------------------------- draining: SpecDrain
\* One client's offline packets are stored and streamed.
NextDrain ==
  \/ StoreSubscriptionsCall({"A"}, {FALSE}, {SubMap({<<"#">>}, 1)})
  \/ StoreOfflinePacketCall(Topics)
  \/ StreamOfflinePacketsCall({"A"}, BOOLEAN)
  \/ Db
  \/ DbStream
  \/ Tick

SpecDrain == Init /\ [][NextDrain]_vars

\* ------------------------------------------- retained: SpecRetained
\* Packets are stored as retained, with a payload or with none, and looked up.
StoreRetainedCall(ts, payloads) ==
  /\ Len(retainedCalls) < MaxStores
  /\ \E t \in ts, p \in payloads :
       CommitDb(StoreRetained(CurDb, Packet(t, p, Len(retainedCalls) + 1)))
  /\ UNCHANGED <<srvVars, wireVars, nStore, nLookup, nStream>>

LookupRetainedCall(patterns) ==
  /\ nLookup < MaxLookups
  /\ \E f \in patterns : CommitDb(LookupRetained(CurDb, f))
  /\ nLookup' = nLookup + 1
  /\ UNCHANGED <<srvVars, wireVars, nStore, nStream>>

\* Every storeRetained has called back when a lookup is made.
NextRetained ==
  \/ StoreRetainedCall(Topics, {0, 1})
  \/ pending = <<>> /\ LookupRetainedCall(Filters)
  \/ Db

SpecRetained == Init /\ [][NextRetained]_vars

\* -------------------------------------------- with persistence: SpecWire
\* The clients that hold a durable subscription matching topic t: through a
\* connected session with clean = false, or through the record persisted for
\* them while they have no session.
OwedConnected(t) ==
  {c \in ClientIds :
     \E k \in Conns :
       /\ id[k] = c /\ connectedEv[k] > 0 /\ listeners[k] /\ onclose[k] /\ ~clean[k]
       /\ \E f \in Filters : /\ subscriptions[k][f].on /\ subscriptions[k][f].qos > 0
                             /\ Matches(f, t)}
OwedOffline(t) ==
  {c \in ClientIds :
     /\ \A k \in Conns : id[k] = c => ~listeners[k]
     /\ dbClientSubscriptions[c].on
     /\ \E f \in Filters : dbClientSubscriptions[c].subs[f] > 0 /\ Matches(f, t)}

\* A session ends: storeSubscriptions(session) with the subscriptions it holds.
SessionEnded(d, k) ==
  IF connectedEv[k] > 0 /\ listeners[k] /\ onclose[k]
  THEN StoreSubscriptions(d, id[k], clean[k], subscriptions[k], now)
  ELSE d

\* CONNECT, accepted: the connect handler, then lookupSubscriptions(session).
WiredConnect(k, ids, cleans) ==
  /\ Recv(k) /\ nConnect < MaxConnects
  /\ \E c \in ids, cl \in cleans, ka \in KeepAlives :
       /\ Commit(Mark(Verdict(OnConnect(Cur, k, c, "ok", ka, FALSE), k, "ok"), k, "connect"))
       /\ CommitDb(LookupSubscriptions(CurDb, c, cl, "session", k))
       /\ clean' = [clean EXCEPT ![k] = cl]
  /\ nConnect' = nConnect + 1
  /\ UNCHANGED <<now, nPublish, nSubscribe, nPing, nPuback, busDelivered, owed,
                 nStore, nLookup, nStream>>

\* DISCONNECT: the session ends.
WiredDisconnect(k) ==
  /\ Recv(k) /\ disconnects[k] < MaxDisconnects
  /\ Commit(Mark(OnDisconnect(Cur, k), k, "disconnect"))
  /\ CommitDb(SessionEnded(CurDb, k))
  /\ UNCHANGED <<now, cntVars, wireVars, nStore, nLookup, nStream>>

\* The socket closes: the session ends, if it has not yet.
WiredClose(k) ==
  /\ ~uncaught /\ stream[k] \in {"open", "end"}
  /\ Commit(Mark(OnClose(Cur, k), NoConn, "none"))
  /\ CommitDb(SessionEnded(CurDb, k))
  /\ UNCHANGED <<now, cntVars, wireVars, nStore, nLookup, nStream>>

\* PUBLISH, authorized: the publish handler, and storeOfflinePacket(packet).
WiredPublish(k, ts, qs) ==
  /\ Recv(k) /\ nPublish < MaxPublishes
  /\ \E t \in ts, q \in qs :
       LET msg == nPublish + 1
           st == Received(OnPublish(Cur, k, t, q, TRUE, msg), Cur, k, q, TRUE, msg)
       IN /\ Commit(Mark(st, k, "publish"))
          /\ CommitDb(StoreOfflinePacket(CurDb, t, msg, q))
          /\ busDelivered' = busDelivered \cup
               {[client |-> st.id[s.conn], msg |-> s.msg] :
                  s \in {x \in st.sent \ sent : listeners[x.conn] /\ stream[x.conn] = "open"}}
          /\ owed' = owed
               \cup {[client |-> c, msg |-> msg, connected |-> TRUE] : c \in OwedConnected(t)}
               \cup {[client |-> c, msg |-> msg, connected |-> FALSE] : c \in OwedOffline(t)}
  /\ nPublish' = nPublish + 1
  /\ UNCHANGED <<now, nConnect, nSubscribe, nPing, nPuback, clean,
                 nStore, nLookup, nStream>>

DurableEntry == {<<[topic |-> <<"a", "+">>, qos |-> 1, ok |-> TRUE]>>}
NextWire ==
  \/ ~Connected("k1") /\ WiredConnect("k1", {"A"}, {FALSE})
  \/ Connected("k1") /\ SubscribeRecv("k1", DurableEntry)
  \/ Connected("k1") /\ WiredDisconnect("k1")
  \/ WiredClose("k1")
  \/ ~Connected("k2") /\ WiredConnect("k2", ClientIds, BOOLEAN)
  \/ Connected("k2") /\ WiredPublish("k2", {<<"a", "b">>}, {1})
  \/ Subscribed
  \/ Unsubscribed
  \/ Published
  \/ Db

SpecWire == Init /\ [][NextWire]_vars

\* ------------------------------------------------------------ the claims
\* The last CONNECT of k was accepted: id[k] is the id of its session.
Accepted(k) == connacks[k] # <<>> /\ connacks[k][Len(connacks[k])] = 0
\* A live session: connected and not closed (closeConn has not been called
\* for it and nobody ended its socket).
Live(k) ==
  /\ Accepted(k) /\ connectedEv[k] > 0
  /\ listeners[k] /\ ~streamEnded[k] /\ stream[k] = "open" /\ endCleanups[k] = <<>>

\* C1: at most one live session per client id: two distinct live sessions
\* never carry the same client id.
C1_OneLivePerId ==
  \A k1 \in Conns, k2 \in Conns :
    (k1 # k2 /\ Live(k1) /\ Live(k2)) => id[k1] # id[k2]

\* The packets that are not CONNECT or DISCONNECT.
Rearming == {"publish", "subscribe", "unsubscribe", "puback", "pingreq"}

\* C8: every packet received from a live session rearms the keepalive
\* watchdog: right after the packet was handled the watchdog is armed with
\* the whole timeout keepalive * 1000 * 5 / 4.
C8_EveryPacketRearms ==
  \A k \in Conns :
    (lastRecv.conn = k /\ lastRecv.type \in Rearming /\ Live(k))
      => (timer[k].armed /\ timer[k].left = Timeout(keepalive[k]))

\* Nothing of connection k is still to run.
Settled(k) == \A i \in DOMAIN deferred : deferred[i].conn # k

\* C9: a connected session with a will has its will published exactly once
\* when its socket has ended without a DISCONNECT, and never when a
\* DISCONNECT was received.  (Stated for the sessions that no Server.close
\* and no authorization denial ended.)
C9_WillExactlyOnce ==
  \A k \in Conns :
    (connectedEv[k] > 0 /\ will[k] /\ shutdown = "no" /\ denied[k] = 0)
      => /\ disconnects[k] > 0 => willPub[k] = 0
         /\ (disconnects[k] = 0 /\ stream[k] = "closed" /\ Settled(k))
              => willPub[k] = 1

\* C6: the entry inflight[messageId] of a forwarded QoS-1 packet is in place
\* from its first transmission until the PUBACK arrives or the 10th retry is
\* reached, and is absent after either.
C6_InflightCleared ==
  /\ \A a \in acks : a.id \notin DOMAIN inflight[a.conn]
  /\ \A e \in exhausted : e.id \notin DOMAIN inflight[e.conn]
  /\ \A s \in sent :
       (/\ s.qos = 1 /\ disconnectedEv[s.conn] = 0
        /\ ~\E a \in acks : a.conn = s.conn /\ a.id = s.id
        /\ ~\E e \in exhausted : e.conn = s.conn /\ e.id = s.id)
         => s.id \in DOMAIN inflight[s.conn]

\* C7: a QoS-1 packet is transmitted at the attempts 0..9 only, one after the
\* other, the retransmit after attempt k being scheduled base * 2^k ms later;
\* a packet that was given up was transmitted at every attempt 0..9; and once
\* the PUBACK has arrived after attempt k there is no transmission k + 1.
C7_RetrySchedule ==
  /\ \A s \in sent :
       s.qos = 1 => /\ s.retry \in 0..9
                    /\ s.delay = BaseRetryTimeout * 2^(s.retry)
                    /\ s.retry > 0 =>
                         \E p \in sent : /\ p.conn = s.conn /\ p.id = s.id
                                         /\ p.retry = s.retry - 1
  /\ \A k \in Conns : \A mid \in DOMAIN inflight[k] :
       inflight[k][mid].delay = BaseRetryTimeout * 2^(inflight[k][mid].retry)
  /\ \A e \in exhausted : \A r \in 0..9 :
       \E s \in sent : s.conn = e.conn /\ s.id = e.id /\ s.retry = r
  /\ \A a \in acks : \A s \in sent :
       (s.conn = a.conn /\ s.id = a.id) => s.retry <= a.retry

\* One packet was given up after its 10 attempts and another one was
\* acknowledged after a retransmission.
C7_Witness ==
  \E e \in exhausted, a \in acks :
    /\ a.conn = e.conn /\ a.id # e.id /\ a.retry > 0 /\ a.retry < 9
    /\ \E s \in sent : s.conn = e.conn /\ s.id = e.id /\ s.retry = 9

\* The session of k was connected and has closed: closeConn's cleanup ran.
Closed(k) == connectedEv[k] > 0 /\ disconnectedEv[k] > 0

\* C10: after a session has closed, by any path, its keepalive timer is
\* cancelled, its inflight map is empty and no handler registered on the bus
\* on its behalf remains.
C10_NothingLeftAfterClose ==
  \A k \in Conns :
    (Closed(k) /\ Settled(k))
      => /\ ~timer[k].armed
         /\ inflight[k] = <<>>
         /\ \A h \in Handlers : h.conn = k => bus[h] = 0

\* C2: for every PUBLISH and every client holding a durable subscription
\* that matches its topic: if the client is connected the message is
\* delivered to it and no offline packet is persisted for it; if it is
\* disconnected an offline packet is persisted for it and nothing is
\* delivered.  Never both; and, once nothing is left to run, not neither.
Quiet == pending = <<>> /\ deferred = <<>>
C2_DeliveredXorOffline ==
  \A o \in owed :
    LET delivered == \E b \in busDelivered : b.client = o.client /\ b.msg = o.msg
        offline == \E p \in stored : p.client = o.client /\ p.msg = o.msg
    IN /\ ~(delivered /\ offline)
       /\ o.connected => ~offline
       /\ ~o.connected => ~delivered
       /\ Quiet => (delivered \/ offline)

\* C3: storeOfflinePacket adds a packet to the offline queue of a client only
\* if the durable subscriptions persisted for the client at that moment
\* contain a filter matching the packet's topic.
C3_OfflineOnlyIfSubscribed ==
  \A p \in stored : \E f \in Filters : p.subs[f] > 0 /\ Matches(f, p.topic)

\* C4: when lookupSubscriptions of a clean client calls done, the store holds
\* no record, no index row and no offline packet of the client, the matcher
\* holds no key of the client, and the result is the empty map.
C4_CleanLookupLeavesNothing ==
  \A l \in lookupDone :
    l.clean => /\ l.result = NoSubs
               /\ ~l.left.record
               /\ l.left.rows = {}
               /\ l.left.pkts = {}
               /\ l.left.tokens = {}

\* C5: whenever no store operation is in progress, the keys the matcher
\* returns for a topic are the keys of the index rows in the store whose
\* filter matches the topic.
C5_MatcherIsIndex ==
  pending = <<>> =>
    \A t \in Topics :
      SubLobberMatch(subLobber, t)
        = {key \in LevelKeys : dbSubscriptions[key].on /\ Matches(key.topic, t)}

\* The handlers registered on the bus for connection k under filter f.
Registered(k, f) ==
  bus[[conn |-> k, topic |-> f, qos |-> 0]] + bus[[conn |-> k, topic |-> f, qos |-> 1]]

\* C11: for every client and filter at most one bus handler is registered on
\* the client's behalf at any time, whatever SUBSCRIBE packets it sends (a
\* repeated SUBSCRIBE updates the stored qos and registers nothing), so that a
\* matching publish is forwarded to the client at most once per filter.
C11_OneHandlerPerFilter ==
  /\ \A k \in Conns, f \in Filters : Registered(k, f) <= 1
  /\ \A k \in Conns, m \in {s.msg : s \in sent} :
       Cardinality({s \in sent : s.conn = k /\ s.msg = m /\ s.retry = 0})
         <= Cardinality(Filters)

\* The last packet of calls on topic t, as a sequence of one, or none.
LatestRetained(calls, t) ==
  LET on == {i \in DOMAIN calls : calls[i].topic = t}
  IN IF on = {} THEN <<>>
     ELSE <<calls[CHOOSE i \in on : \A j \in on : j <= i]>>

\* C12: lookupRetained(f), made after the calls of storeRetained have
\* completed, returns for every topic f matches the latest packet stored for
\* the topic, once, if that packet's payload is not empty; and it returns no
\* packet of a topic for which a packet with a payload was stored and then one
\* with an empty payload.
C12_RetainedRoundTrip ==
  \A r \in retainedDone : \A t \in Topics :
    LET last == LatestRetained(r.calls, t)
        got == SelectSeq(r.matched, LAMBDA p : p.topic = t)
    IN /\ (last # <<>> /\ last[1].payload > 0 /\ Matches(r.pattern, t)) => got = last
       /\ (/\ last # <<>> /\ last[1].payload = 0
           /\ \E i \in DOMAIN r.calls : r.calls[i].topic = t /\ r.calls[i].payload > 0)
            => got = <<>>

\* C13: when done of streamOfflinePackets for a client with clean = false is
\* called, every offline packet the store held for the client has been
\* yielded, exactly once, and none of them remains in the store.
C13_DrainedWhenDone ==
  \A r \in streamDone :
    ~r.clean =>
      \A i \in DOMAIN r.rows :
        /\ Cardinality({j \in DOMAIN r.yielded :
                          r.yielded[j] = [client |-> r.client, msg |-> r.rows[i].msg]}) = 1
        /\ r.rows[i].at \notin r.left

\* C14: when a QoS-1 delivery is given up at the 10th retry, an error is
\* raised on the session and the packet is not sent again, and the session is
\* kept: as long as the client neither disconnects nor drops its socket, the
\* session stays in the registry, its socket is not ended, its subscriptions
\* stay registered and no clientDisconnected is emitted.
C14_SessionKeptOnExhaustion ==
  \A e \in exhausted :
    LET k == e.conn
    IN (disconnects[k] = 0 /\ stream[k] = "open" /\ denied[k] = 0)
         => /\ errorEv[k] > 0
            /\ \A s \in sent : (s.conn = k /\ s.id = e.id) => s.retry < MaxRetry
            /\ e.id \in DOMAIN inflight[k] => ~inflight[k][e.id].armed
            /\ clients[id[k]] = k
            /\ ~streamEnded[k]
            /\ \A f \in Filters : subscriptions[k][f].on => Registered(k, f) > 0
            /\ disconnectedEv[k] = 0

\* C15: a PUBLISH, SUBSCRIBE, UNSUBSCRIBE, PUBACK or PINGREQ received on a
\* connection that no CONNECT was accepted on drops the stream and does
\* nothing else: nothing is published or registered on the bus for the
\* connection, no published event is emitted and no packet is written to it.
C15_UnconnectedDropped ==
  \A k \in Conns :
    connectedEv[k] = 0 =>
      /\ (lastRecv.conn = k /\ lastRecv.type \in Rearming) => streamEnded[k]
      /\ \A i \in DOMAIN deferred : deferred[i].conn # k
      /\ \A f \in Filters : Registered(k, f) = 0
      /\ \A p \in published : p.conn # k
      /\ \A p \in pubacks : p.conn # k
      /\ \A p \in sent : p.conn # k
      /\ pingresps[k] = 0 /\ subacks[k] = <<>> /\ unsubacks[k] = 0

\* The PUBLISH packets authorizePublish refused.
Refused == {r \in publishes : ~r.ok}

\* Nothing of PUBLISH msg was published: it was not handed to the bus (no
\* callback of the bus is pending for it, no subscriber was sent it), no
\* PUBACK was written for it and no published event was emitted for it.
NothingPublished(msg) ==
  /\ \A i \in DOMAIN deferred : deferred[i].kind = "published" => deferred[i].msg # msg
  /\ \A p \in sent : p.msg # msg
  /\ \A p \in pubacks : p.mid # msg
  /\ \A p \in published : p.msg # msg

\* The socket of k was ended, or will be as soon as the bus has called back
\* for the unsubscribes of unsubAndClose.
Closing(k) ==
  \/ streamEnded[k] \/ stream[k] # "open"
  \/ \E i \in DOMAIN deferred :
       deferred[i].conn = k /\ deferred[i].kind = "unsubscribed" /\ deferred[i].then = "close"

\* C16: when authorizePublish refuses a PUBLISH (verdict false or an error),
\* the message is never published on the bus, no PUBACK is ever written and no
\* published event is ever emitted for it; the handler unsubscribes the
\* handler of every subscription the session holds from the bus, and the socket is ended (at
\* once when the session holds no subscription, else when the unsubscribes
\* have called back).
C16_DeniedPublish ==
  /\ [](\A r \in Refused : NothingPublished(r.msg) /\ Closing(r.conn))
  /\ [][\A r \in Refused' \ Refused : \A f \in r.held :
          LET h == [conn |-> r.conn, topic |-> f, qos |-> subscriptions[r.conn][f].hqos]
          IN bus[h] > 0 => bus'[h] = bus[h] - 1]_vars

\* A PUBLISH of a session that held a subscription was refused; the
\* subscription is gone from the bus and from the session, and the socket
\* was ended.
C16_Witness ==
  \E r \in Refused :
    /\ r.held # {} /\ streamEnded[r.conn]
    /\ \A f \in r.held : Registered(r.conn, f) = 0 /\ ~subscriptions[r.conn][f].on

\* C17: a CONNECT for which authenticate reports false is answered with
\* CONNACK 5 and the stream is ended, and it changes neither the registry nor
\* the keepalive watchdog and emits no clientConnected; a connection whose
\* CONNECTs were all refused is never in the registry, is never sent CONNACK
\* 0, never has its watchdog armed and never has a clientConnected emitted.
C17_DeniedConnect ==
  /\ [](\A k \in Conns :
          (verdicts[k] # <<>> /\ \A i \in DOMAIN verdicts[k] : verdicts[k][i] = "deny")
            => /\ connacks[k] = [i \in DOMAIN verdicts[k] |-> 5]
               /\ streamEnded[k]
               /\ \A c \in ClientIds : clients[c] # k
               /\ ~timer[k].armed
               /\ connectedEv[k] = 0)
  /\ [][\A k \in Conns :
          verdicts'[k] = Append(verdicts[k], "deny")
            => /\ connacks'[k] = Append(connacks[k], 5)
               /\ streamEnded'[k]
               /\ clients' = clients /\ timer' = timer
               /\ connectedEv' = connectedEv]_vars

\* One connection was refused while the other one holds a session under the
\* client id the refused CONNECT carried.
C17_Witness ==
  \E k1 \in Conns, k2 \in Conns :
    /\ k1 # k2 /\ verdicts[k1] = <<"deny">> /\ connacks[k1] = <<5>> /\ streamEnded[k1]
    /\ verdicts[k2] = <<"ok">> /\ id[k1] = id[k2] /\ clients[id[k2]] = k2

\* C18: the messageId of every packet forward transmits, QoS 0 or QoS 1, is
\* within 16 bits: at most 65535, whatever the number of messages forwarded.
C18_MessageIdIn16Bits ==
  \A s \in sent : s.id <= 65535

\* A PUBLISH was handed to the bus and the bus has not reported it done.
AtBus(r) ==
  {i \in DOMAIN deferred : /\ deferred[i].kind = "published"
                           /\ deferred[i].conn = r.conn /\ deferred[i].msg = r.msg}

\* C19: a PUBACK is only ever written to the publisher of an authorized
\* qos-1 PUBLISH, with that packet's messageId.  While the bus has not
\* reported an authorized PUBLISH done, no PUBACK is written and no published
\* event is emitted for it; once it has, the published event has been emitted
\* and the PUBACK has been written if the qos is 1, and not if it is 0.
C19_PubackAfterBus ==
  /\ \A p \in pubacks :
       \E r \in publishes : r.ok /\ r.qos = 1 /\ r.conn = p.conn /\ r.msg = p.mid
  /\ \A p \in published : \E r \in publishes : r.ok /\ r.conn = p.conn /\ r.msg = p.msg
  /\ \A r \in publishes :
       r.ok =>
         LET ack == [conn |-> r.conn, mid |-> r.msg]
             ev == [conn |-> r.conn, msg |-> r.msg]
         IN IF AtBus(r) # {}
            THEN Cardinality(AtBus(r)) = 1 /\ ack \notin pubacks /\ ev \notin published
            ELSE ev \in published /\ (ack \in pubacks <=> r.qos = 1)

\* The bus has reported an authorized qos-1 PUBLISH done: its PUBACK was
\* written and its published event emitted.
C19_Witness ==
  \E r \in publishes :
    /\ r.ok /\ r.qos = 1 /\ AtBus(r) = {}
    /\ [conn |-> r.conn, mid |-> r.msg] \in pubacks
    /\ [conn |-> r.conn, msg |-> r.msg] \in published

\* The bus callbacks in q that will write a SUBACK.
SubackTasks(q) == SelectSeq(q, LAMBDA t : t.kind = "subscribed" /\ t.suback)

\* C20: when authorizeSubscribe refuses (denies, or reports an error for) a
\* filter of a SUBSCRIBE, the step that handles the packet writes no SUBACK
\* and leaves none to be written, and it unsubscribes the handler of every
\* subscription the session holds from the bus; a SUBACK is only ever written
\* by the SUBSCRIBE handler itself or by a bus callback that was left to write
\* one; and from then on the socket has been ended or the close is queued
\* behind the bus's unsubscribe callbacks.
C20_DeniedSubscribe ==
  /\ [](\A k \in Conns : denied[k] > 0 => Closing(k))
  /\ [][\A k \in Conns :
          (denied'[k] > denied[k] /\ lastRecv'.type = "subscribe")
            => /\ subacks' = subacks
               /\ SubackTasks(deferred') = SubackTasks(deferred)
               /\ \A f \in Filters :
                    LET h == [conn |-> k, topic |-> f, qos |-> subscriptions[k][f].hqos]
                    IN (subscriptions[k][f].on /\ bus[h] > 0) => bus'[h] = bus[h] - 1]_vars
  /\ [][subacks' # subacks
          => \/ lastRecv'.type = "subscribe"
             \/ /\ deferred # <<>> /\ Head(deferred).kind = "subscribed"
                /\ Head(deferred).suback]_vars

\* A session that held a subscription, acknowledged by a SUBACK, sent a
\* second SUBSCRIBE with a refused filter: it got no second SUBACK, holds no
\* subscription any more and its socket was ended.
C20_Witness ==
  \E k \in Conns :
    /\ denied[k] > 0 /\ nSubscribe = 2 /\ Len(subacks[k]) = 1
    /\ streamEnded[k] /\ Settled(k)
    /\ \A f \in Filters : ~subscriptions[k][f].on /\ Registered(k, f) = 0

\* C21: session cleanup is idempotent: however often closeConn is called for
\* a session (the keepalive timer, Server.close, DISCONNECT and the socket's
\* close overlapping before the stream has ended), clientDisconnected is
\* emitted at most once for it.
C21_CleanupOnce ==
  \A k \in Conns : disconnectedEv[k] <= 1

\* C22: an offline packet stored by storeOfflinePacket expires ttl.packets
\* after it was stored, whatever ttl.subscriptions is: the expiry the row is
\* put with, at which the database's ttl check removes it, is the time of the
\* put plus ttl.packets.
C22_PacketsExpireAfterPacketsTtl ==
  \A p \in dbOfflinePackets : p.exp = p.at + TtlPackets

\* C23: the registry entry of a client id is removed only by a step that
\* closes the session registered under the id; and a live session is in the
\* registry under its id when no other connection was ever accepted (the
\* others sent no CONNECT or failed authentication).
C23_RegistryRemovedByOwner ==
  /\ [](\A k \in Conns :
          (Live(k) /\ \A k2 \in Conns \ {k} : connectedEv[k2] = 0) => clients[id[k]] = k)
  /\ [][\A c \in ClientIds :
          (clients[c] # NoConn /\ clients'[c] = NoConn)
            => \/ Len(endCleanups'[clients[c]]) > Len(endCleanups[clients[c]])
               \/ disconnectedEv'[clients[c]] > disconnectedEv[clients[c]]]_vars

\* C24: clientDisconnected is emitted for a connection only if
\* clientConnected was emitted for it before: a connection that sent no
\* CONNECT, or whose authentication was refused or failed, never has a
\* clientDisconnected.
C24_DisconnectedOnlyIfConnected ==
  \A k \in Conns : disconnectedEv[k] > 0 => connectedEv[k] > 0

====
